---- MODULE Spec2Model ----
(***************************************************************************)
(* Model of src/components/ItemManager.tsx: the ItemSet derivation         *)
(* (itemSets useMemo), the item materializer (handleItemSetSelect) and the *)
(* undoable mutation protocol (handleCreateItems, handleReset,             *)
(* handleDelete and the toast undo closures).                              *)
(*                                                                         *)
(* Strings the code computes with (names, filenames, labels, ids, urls)    *)
(* are sequences of one-character strings, so that template-literal        *)
(* concatenation and split('.') are computed, not assumed.  Strings the    *)
(* code only passes along (titles, display names) are TLA+ strings.        *)
(***************************************************************************)
EXTENDS Integers, Sequences, FiniteSets, TLC

VARIABLES
  catalog,            \* typedImagesetConfig.packages, in Object.entries order
  itemSets,           \* the memoized itemSets value
  board,              \* Board State Owner: the item list
  resetSnap,          \* Board State Owner: snapshot taken by resetItems
  deleteSnap,         \* Board State Owner: snapshot taken by deleteAllItems
  toasts,             \* notifications emitted so far, each with its undo closure
  created,            \* history: created[i] = ids of toast i's batch when it was created
  isItemCreatorOpen,  \* useState(false)
  alertOpen,          \* the Remove All AlertDialog is showing
  event,              \* the UI event handled by the last step
  calls,              \* the calls the last handler made, in order
  threw,              \* the last handler ended in an uncaught TypeError
  edits               \* number of item edits made on the board so far

vars == <<catalog, itemSets, board, resetSnap, deleteSnap, toasts, created,
          isItemCreatorOpen, alertOpen, event, calls, threw, edits>>

-----------------------------------------------------------------------------
(* Bounds *)

MaxOps == 2

MaxEdits == 1

MaxSel == 2

MaxImages == 2

-----------------------------------------------------------------------------
(* String helpers *)

S_all == <<"a", "l", "l">>

S_m == <<"m">>

S_x == <<"x">>

SeqsUpTo(S, n) == UNION {[1..k -> S] : k \in 0..n}

Digit(d) == <<CASE d = 0 -> "0" [] d = 1 -> "1" [] d = 2 -> "2" [] d = 3 -> "3"
                [] d = 4 -> "4" [] d = 5 -> "5" [] d = 6 -> "6" [] d = 7 -> "7"
                [] d = 8 -> "8" [] d = 9 -> "9">>

RECURSIVE NumToStr(_)
\* `${index}` for a non-negative integer: its decimal digits
NumToStr(n) == IF n < 10 THEN Digit(n) ELSE NumToStr(n \div 10) \o Digit(n % 10)

RECURSIVE SplitFirst(_)
\* image.split('.')[0]: the text before the first '.'
SplitFirst(s) ==
  IF s = <<>> \/ Head(s) = "." THEN <<>> ELSE <<Head(s)>> \o SplitFirst(Tail(s))

\* Array.prototype.includes
Includes(arr, x) == \E i \in 1..Len(arr) : arr[i] = x

-----------------------------------------------------------------------------
(* ItemSet derivation: the itemSets useMemo *)

Filenames(imgs) == [i \in 1..Len(imgs) |-> imgs[i].filename]

AllSet(p) ==
  [packageName |-> p.name, packageDisplayName |-> p.displayName,
   tagName |-> S_all, tagTitle |-> "All Items",
   images |-> Filenames(p.images)]

TaggedImages(p, tagName) ==
  SelectSeq(p.images, LAMBDA image : Includes(image.tags, tagName))

TagSet(p, t) ==
  IF Len(TaggedImages(p, t.key)) > 0
  THEN <<[packageName |-> p.name, packageDisplayName |-> p.displayName,
          tagName |-> t.key, tagTitle |-> t.title,
          images |-> Filenames(TaggedImages(p, t.key))]>>
  ELSE <<>>

RECURSIVE TagSets(_, _)
TagSets(p, k) ==
  IF k > Len(p.tags) THEN <<>> ELSE TagSet(p, p.tags[k]) \o TagSets(p, k + 1)

PackageSets(p) == <<AllSet(p)>> \o TagSets(p, 1)

RECURSIVE DeriveFrom(_, _)
DeriveFrom(config, k) ==
  IF k > Len(config) THEN <<>>
  ELSE PackageSets(config[k]) \o DeriveFrom(config, k + 1)

deriveItemSets(config) == DeriveFrom(config, 1)

-----------------------------------------------------------------------------
(* Item materialization: handleItemSetSelect's map *)

\* typedImagesetConfig.packages[packageName]: index of the package, 0 = undefined
PackageIndex(config, packageName) ==
  IF \E k \in 1..Len(config) : config[k].name = packageName
  THEN CHOOSE k \in 1..Len(config) : config[k].name = packageName
  ELSE 0

RECURSIVE FindFrom(_, _, _)
\* images.find(img => img.filename === image): index of the first match, 0 = undefined
FindFrom(images, image, k) ==
  IF k > Len(images) THEN 0
  ELSE IF images[k].filename = image THEN k
  ELSE FindFrom(images, image, k + 1)

ItemId(packageName, tagName, index) ==
  packageName \o <<"-">> \o tagName \o <<"-", "i", "t", "e", "m", "-">> \o NumToStr(index)

ImageUrl(packageName, image) ==
  <<"/", "i", "m", "a", "g", "e", "s", "/">> \o packageName \o <<"/">> \o image

\* Variant: imageData?.label ?? ..., which keeps an empty label
ItemContentNullish(images, found, image) ==
  IF found # 0 THEN images[found].label ELSE SplitFirst(image)

\* imageData?.label || image.split('.')[0]   (found = 0: imageData undefined)
ItemContent(images, found, image) ==
  IF found # 0 /\ images[found].label # <<>> THEN images[found].label
  ELSE SplitFirst(image)

\* imageData?.tags || []   (an array, even an empty one, is truthy)
ItemTags(images, found) == IF found # 0 THEN images[found].tags ELSE <<>>

\* Variant: numbers an item by its image's position in the package
MaterializeItemByPackageIndex(packageName, tagName, packageData, image, index) ==
  LET found == FindFrom(packageData.images, image, 1) IN
  [id |-> ItemId(packageName, tagName, IF found # 0 THEN found - 1 ELSE index),
   content |-> ItemContent(packageData.images, found, image),
   imageUrl |-> ImageUrl(packageName, image),
   tags |-> ItemTags(packageData.images, found)]

\* index is the zero-based position in the selection
MaterializeItem(packageName, tagName, packageData, image, index) ==
  LET found == FindFrom(packageData.images, image, 1) IN
  [id |-> ItemId(packageName, tagName, index),
   content |-> ItemContent(packageData.images, found, image),
   imageUrl |-> ImageUrl(packageName, image),
   tags |-> ItemTags(packageData.images, found)]

\* The images.map(...) of handleItemSetSelect.  packageData.images is read
\* inside the callback, so an undefined packageData raises a TypeError on the
\* first element; an empty selection never runs the callback.
NewItems(config, packageName, tagName, images) ==
  LET pk == PackageIndex(config, packageName) IN
  IF pk = 0
  THEN [threw |-> Len(images) > 0, items |-> <<>>]
  ELSE [threw |-> FALSE,
        items |-> [i \in 1..Len(images) |->
                     MaterializeItem(packageName, tagName, config[pk], images[i], i - 1)]]

Ids(items) == [i \in 1..Len(items) |-> items[i].id]

-----------------------------------------------------------------------------
(* Board State Owner: the six entry points passed in as props.  Their code is *)
(* outside ItemManager.tsx; they are modelled from the specification's        *)
(* boundary description (add appends, undo-add removes by id set, reset and   *)
(* delete-all keep one snapshot each, an undo with no snapshot is a no-op).   *)
(* Items are replaced, never mutated in place, when edited.  The field batch  *)
(* is history: the number of the Create call that added the item.             *)

NoSnap == [has |-> FALSE, items |-> <<>>]

Snap(b) == [has |-> TRUE, items |-> b]

onItemsCreate(b, newItems, batch) ==
  b \o [i \in 1..Len(newItems) |->
          [id |-> newItems[i].id, content |-> newItems[i].content,
           imageUrl |-> newItems[i].imageUrl, tags |-> newItems[i].tags,
           batch |-> batch, rank |-> 0]]

onUndoItemsCreate(b, itemIds) == SelectSeq(b, LAMBDA it : ~Includes(itemIds, it.id))

resetItems(b) == [i \in 1..Len(b) |-> [b[i] EXCEPT !.rank = 0]]

-----------------------------------------------------------------------------
(* Records of what a handler did *)

Ev(kind) ==
  [kind |-> kind, toast |-> 0, again |-> FALSE,
   packageName |-> <<>>, tagName |-> <<>>, images |-> <<>>]

Call(fn) == [fn |-> fn, items |-> <<>>, ids |-> <<>>, title |-> "", count |-> 0, undo |-> ""]

ToastCall(title, count, undo) ==
  [Call("toast") EXCEPT !.title = title, !.count = count, !.undo = undo]

\* The notification sonner shows: its action closure is undo, which for a
\* Create captures the newItems array.
Toast(title, count, undo, items) ==
  [title |-> title, count |-> count, undo |-> undo, items |-> items, invoked |-> FALSE]

-----------------------------------------------------------------------------
(* The undoable mutation protocol *)

HandleCreateItems(newItems) ==
  /\ board' = onItemsCreate(board, newItems, Len(toasts) + 1)
  /\ isItemCreatorOpen' = FALSE
  /\ toasts' = Append(toasts, Toast("Items Added", Len(newItems), "onUndoItemsCreate", newItems))
  /\ created' = Append(created, Ids(newItems))
  /\ calls' = <<[Call("onItemsCreate") EXCEPT !.items = newItems],
                ToastCall("Items Added", Len(newItems), "onUndoItemsCreate")>>
  /\ UNCHANGED <<resetSnap, deleteSnap>>

\* Variant: dismisses the notifications showing before it emits its own
HandleResetDismissing ==
  /\ resetSnap' = Snap(board)
  /\ board' = resetItems(board)
  /\ toasts' = <<Toast("Items Reset", 0, "undoReset", <<>>)>>
  /\ created' = << <<>> >>
  /\ calls' = <<Call("resetItems"), ToastCall("Items Reset", 0, "undoReset")>>
  /\ UNCHANGED <<deleteSnap, isItemCreatorOpen>>

HandleReset ==
  /\ resetSnap' = Snap(board)
  /\ board' = resetItems(board)
  /\ toasts' = Append(toasts, Toast("Items Reset", 0, "undoReset", <<>>))
  /\ created' = Append(created, <<>>)
  /\ calls' = <<Call("resetItems"), ToastCall("Items Reset", 0, "undoReset")>>
  /\ UNCHANGED <<deleteSnap, isItemCreatorOpen>>

\* Variant: wires the notification to the Reset undo
HandleDeleteMiswired ==
  /\ deleteSnap' = Snap(board)
  /\ board' = <<>>
  /\ toasts' = Append(toasts, Toast("All Items Deleted", 0, "undoReset", <<>>))
  /\ created' = Append(created, <<>>)
  /\ calls' = <<Call("deleteAllItems"), ToastCall("All Items Deleted", 0, "undoReset")>>
  /\ UNCHANGED <<resetSnap, isItemCreatorOpen>>

HandleDelete ==
  /\ deleteSnap' = Snap(board)
  /\ board' = <<>>
  /\ toasts' = Append(toasts, Toast("All Items Deleted", 0, "undoDelete", <<>>))
  /\ created' = Append(created, <<>>)
  /\ calls' = <<Call("deleteAllItems"), ToastCall("All Items Deleted", 0, "undoDelete")>>
  /\ UNCHANGED <<resetSnap, isItemCreatorOpen>>

\* handleItemSetSelect: materialize, then Create unless the map raised
HandleItemSetSelect(packageName, tagName, images) ==
  LET r == NewItems(catalog, packageName, tagName, images) IN
  /\ threw' = r.threw
  /\ IF r.threw
     THEN /\ calls' = <<>>
          /\ UNCHANGED <<board, resetSnap, deleteSnap, toasts, created, isItemCreatorOpen>>
     ELSE HandleCreateItems(r.items)

\* Variant: the closure reads the batch created last, not its own
UndoIdsOfLatest(t) == Ids(toasts[Len(toasts)].items)

\* onClick of a Create toast: newItems.map(item => item.id), on the captured array
UndoIds(t) == Ids(t.items)

\* The action closure of toast i, run when its Undo button is clicked.  The
\* closure carries no guard and no state of its own.
UndoClick(i) ==
  LET t == toasts[i] IN
  /\ toasts' = [toasts EXCEPT ![i].invoked = TRUE]
  /\ CASE t.undo = "onUndoItemsCreate" ->
            /\ board' = onUndoItemsCreate(board, UndoIds(t))
            /\ calls' = <<[Call("onUndoItemsCreate") EXCEPT !.ids = UndoIds(t)]>>
            /\ UNCHANGED <<resetSnap, deleteSnap>>
       [] t.undo = "undoReset" ->
            /\ board' = IF resetSnap.has THEN resetSnap.items ELSE board
            /\ resetSnap' = NoSnap
            /\ calls' = <<Call("undoReset")>>
            /\ UNCHANGED deleteSnap
       [] t.undo = "undoDelete" ->
            /\ board' = IF deleteSnap.has THEN deleteSnap.items ELSE board
            /\ deleteSnap' = NoSnap
            /\ calls' = <<Call("undoDelete")>>
            /\ UNCHANGED resetSnap
  /\ UNCHANGED <<created, isItemCreatorOpen>>

-----------------------------------------------------------------------------
(* UI events of the rendered tree *)

\* ItemSetSelector's onSelectItemSet, offered the derived itemSets
SelectItemSet(k) ==
  /\ Len(toasts) < MaxOps
  /\ event' = [Ev("select") EXCEPT !.packageName = itemSets[k].packageName,
                                   !.tagName = itemSets[k].tagName,
                                   !.images = itemSets[k].images]
  /\ HandleItemSetSelect(itemSets[k].packageName, itemSets[k].tagName, itemSets[k].images)
  /\ UNCHANGED <<catalog, itemSets, alertOpen, edits>>

\* "From your device": setIsItemCreatorOpen(true)
OpenItemCreator ==
  /\ ~isItemCreatorOpen
  /\ isItemCreatorOpen' = TRUE
  /\ event' = Ev("openCreator")
  /\ calls' = <<>>
  /\ threw' = FALSE
  /\ UNCHANGED <<catalog, itemSets, board, resetSnap, deleteSnap, toasts, created,
                 alertOpen, edits>>

\* Dialog onOpenChange={setIsItemCreatorOpen}: the user closes the dialog
CloseItemCreator ==
  /\ isItemCreatorOpen
  /\ isItemCreatorOpen' = FALSE
  /\ event' = Ev("closeCreator")
  /\ calls' = <<>>
  /\ threw' = FALSE
  /\ UNCHANGED <<catalog, itemSets, board, resetSnap, deleteSnap, toasts, created,
                 alertOpen, edits>>

\* ItemCreator's onItemsCreate={handleCreateItems}: items built by the upload flow
Upload(newItems) ==
  /\ isItemCreatorOpen
  /\ Len(toasts) < MaxOps
  /\ event' = Ev("upload")
  /\ threw' = FALSE
  /\ HandleCreateItems(newItems)
  /\ UNCHANGED <<catalog, itemSets, alertOpen, edits>>

\* DropdownMenuItem onSelect={handleReset}
Reset ==
  /\ Len(toasts) < MaxOps
  /\ event' = Ev("reset")
  /\ threw' = FALSE
  /\ HandleReset
  /\ UNCHANGED <<catalog, itemSets, alertOpen, edits>>

\* Variant: the menu entry runs handleDelete itself, as Reset's does
RemoveAllSelectUnconfirmed ==
  /\ Len(toasts) < MaxOps
  /\ event' = Ev("removeAll")
  /\ threw' = FALSE
  /\ HandleDelete
  /\ UNCHANGED <<catalog, itemSets, alertOpen, edits>>

\* "Remove All": onSelect only prevents the menu default; the AlertDialogTrigger opens the prompt
RemoveAllSelect ==
  /\ ~alertOpen
  /\ alertOpen' = TRUE
  /\ event' = Ev("removeAll")
  /\ calls' = <<>>
  /\ threw' = FALSE
  /\ UNCHANGED <<catalog, itemSets, board, resetSnap, deleteSnap, toasts, created,
                 isItemCreatorOpen, edits>>

\* AlertDialogCancel
CancelDelete ==
  /\ alertOpen
  /\ alertOpen' = FALSE
  /\ event' = Ev("cancelDelete")
  /\ calls' = <<>>
  /\ threw' = FALSE
  /\ UNCHANGED <<catalog, itemSets, board, resetSnap, deleteSnap, toasts, created,
                 isItemCreatorOpen, edits>>

\* AlertDialogAction onClick={handleDelete}
ConfirmDelete ==
  /\ alertOpen
  /\ Len(toasts) < MaxOps
  /\ alertOpen' = FALSE
  /\ event' = Ev("confirmDelete")
  /\ threw' = FALSE
  /\ HandleDelete
  /\ UNCHANGED <<catalog, itemSets, edits>>

\* The Undo button of notification i is clicked
UndoInvoke(i) ==
  /\ event' = [Ev("undo") EXCEPT !.toast = i, !.again = toasts[i].invoked]
  /\ threw' = FALSE
  /\ UndoClick(i)
  /\ UNCHANGED <<catalog, itemSets, alertOpen, edits>>

\* The user renames item i on the board
EditItem(i) ==
  /\ edits < MaxEdits
  /\ edits' = edits + 1
  /\ board' = [board EXCEPT ![i].content = <<"e">>]
  /\ event' = Ev("edit")
  /\ calls' = <<>>
  /\ threw' = FALSE
  /\ UNCHANGED <<catalog, itemSets, resetSnap, deleteSnap, toasts, created,
                 isItemCreatorOpen, alertOpen>>

\* The user drags item i into a tier
RankItem(i) ==
  /\ edits < MaxEdits
  /\ edits' = edits + 1
  /\ board' = [board EXCEPT ![i].rank = 1]
  /\ event' = Ev("rank")
  /\ calls' = <<>>
  /\ threw' = FALSE
  /\ UNCHANGED <<catalog, itemSets, resetSnap, deleteSnap, toasts, created,
                 isItemCreatorOpen, alertOpen>>

-----------------------------------------------------------------------------
(* Inputs *)

F_ax == <<"a", ".", "x">>

F_b == <<"b">>

F_h == <<".", "h">>

F_cyz == <<"c", ".", "y", ".", "z">>

ProtocolCatalog ==
  <<[name |-> <<"p">>, displayName |-> "P",
     images |-> <<[filename |-> F_ax, label |-> <<"A">>, tags |-> <<S_m>>],
                  [filename |-> F_b, label |-> <<>>, tags |-> <<>>]>>,
     tags |-> <<[key |-> S_m, title |-> "M"]>>]>>

UploadItem ==
  [id |-> <<"u", "0">>, content |-> <<"U">>, imageUrl |-> <<"b", "l", "o", "b">>, tags |-> <<>>]

UploadLists == {<<>>, <<UploadItem>>}

-----------------------------------------------------------------------------
(* The protocol's specification *)

InitCommon ==
  /\ board = <<>>
  /\ resetSnap = NoSnap
  /\ deleteSnap = NoSnap
  /\ toasts = <<>>
  /\ created = <<>>
  /\ isItemCreatorOpen = FALSE
  /\ alertOpen = FALSE
  /\ event = Ev("init")
  /\ calls = <<>>
  /\ threw = FALSE
  /\ edits = 0

Init ==
  /\ catalog = ProtocolCatalog
  /\ itemSets = deriveItemSets(catalog)
  /\ InitCommon

Next ==
  \/ \E k \in 1..Len(itemSets) : SelectItemSet(k)
  \/ OpenItemCreator
  \/ CloseItemCreator
  \/ \E newItems \in UploadLists : Upload(newItems)
  \/ Reset
  \/ RemoveAllSelect
  \/ CancelDelete
  \/ ConfirmDelete
  \/ \E i \in 1..Len(toasts) : UndoInvoke(i)
  \/ \E i \in 1..Len(board) : EditItem(i)
  \/ \E i \in 1..Len(board) : RankItem(i)

Spec == Init /\ [][Next]_vars

-----------------------------------------------------------------------------
(* The protocol over a board that is not empty when the component is mounted: *)
(* the Board State Owner outlives ItemManager, so its list may already hold   *)
(* ranked items (batch 0: added by no Create of this component).              *)

MountedItem ==
  [id |-> <<"o", "0">>, content |-> <<"O">>, imageUrl |-> <<"o">>, tags |-> <<>>,
   batch |-> 0, rank |-> 1]

MountedBoard == <<MountedItem>>

MountedCatalog ==
  <<[name |-> <<"p">>, displayName |-> "P",
     images |-> <<[filename |-> F_ax, label |-> <<"A">>, tags |-> <<>>]>>,
     tags |-> <<>>]>>

InitMounted ==
  /\ catalog = MountedCatalog
  /\ itemSets = deriveItemSets(catalog)
  /\ board = MountedBoard
  /\ resetSnap = NoSnap
  /\ deleteSnap = NoSnap
  /\ toasts = <<>>
  /\ created = <<>>
  /\ isItemCreatorOpen = FALSE
  /\ alertOpen = FALSE
  /\ event = Ev("init")
  /\ calls = <<>>
  /\ threw = FALSE
  /\ edits = 0

SpecMounted == InitMounted /\ [][Next]_vars

-----------------------------------------------------------------------------
(* The derivation alone: one render of the component over a range of catalogs *)

DeriveTagLists == {<<>>, <<S_m>>, <<S_all>>, <<S_m, S_all>>, <<S_x>>}

DeriveImages ==
  {[filename |-> f, label |-> <<"L">>, tags |-> ts] : f \in {F_ax, F_b}, ts \in DeriveTagLists}

DeriveTagMaps ==
  {<<>>,
   <<[key |-> S_m, title |-> "M"]>>,
   <<[key |-> S_all, title |-> "Everything"]>>,
   <<[key |-> S_m, title |-> "M"], [key |-> S_all, title |-> "Everything"]>>,
   <<[key |-> S_all, title |-> "Everything"], [key |-> S_m, title |-> "M"]>>}

DerivePackages ==
  {[name |-> <<"p">>, displayName |-> "P", images |-> imgs, tags |-> tm] :
     imgs \in SeqsUpTo(DeriveImages, MaxImages), tm \in DeriveTagMaps}

SecondPackage ==
  [name |-> <<"q">>, displayName |-> "Q",
   images |-> <<[filename |-> F_cyz, label |-> <<>>, tags |-> <<S_m>>]>>,
   tags |-> <<[key |-> S_m, title |-> "M"]>>]

DeriveCatalogs ==
  {<<p>> : p \in DerivePackages} \cup {<<p, SecondPackage>> : p \in DerivePackages}

InitDerive ==
  /\ catalog \in DeriveCatalogs
  /\ itemSets = <<>>
  /\ InitCommon

\* First render: useMemo runs the derivation once
Render ==
  /\ event.kind = "init"
  /\ itemSets' = deriveItemSets(catalog)
  /\ event' = Ev("render")
  /\ UNCHANGED <<catalog, board, resetSnap, deleteSnap, toasts, created,
                 isItemCreatorOpen, alertOpen, calls, threw, edits>>

NextDerive == Render

SpecDerive == InitDerive /\ [][NextDerive]_vars

-----------------------------------------------------------------------------
(* The materializer alone: one call of handleItemSetSelect with any arguments *)

F_g == <<"g", ".", "p">>

CatalogA ==
  <<[name |-> <<"p">>, displayName |-> "P",
     images |-> <<[filename |-> F_ax, label |-> <<"A">>, tags |-> <<S_m>>],
                  [filename |-> F_b, label |-> <<>>, tags |-> <<S_m, S_all>>],
                  [filename |-> F_ax, label |-> <<"Z">>, tags |-> <<>>],
                  [filename |-> F_cyz, label |-> <<>>, tags |-> <<S_x>>],
                  [filename |-> F_h, label |-> <<>>, tags |-> <<>>]>>,
     tags |-> <<[key |-> S_m, title |-> "M"], [key |-> S_all, title |-> "Everything"]>>]>>

CatalogB ==
  <<[name |-> <<"p">>, displayName |-> "P", images |-> <<>>, tags |-> <<>>],
    [name |-> <<"q">>, displayName |-> "Q",
     images |-> <<[filename |-> F_b, label |-> <<"B">>, tags |-> <<>>]>>,
     tags |-> <<>>]>>

MatCatalogs == {CatalogA, CatalogB}

MatPackageNames == {<<"p">>, <<"q">>, <<"z">>}

MatTagNames == {S_all, S_m}

MatFilenames == {F_ax, F_b, F_cyz, F_h, F_g}

InitMat ==
  /\ catalog \in MatCatalogs
  /\ itemSets = deriveItemSets(catalog)
  /\ InitCommon

\* onSelectItemSet called with arbitrary arguments
SelectCall(packageName, tagName, images) ==
  /\ event.kind = "init"
  /\ event' = [Ev("select") EXCEPT !.packageName = packageName, !.tagName = tagName,
                                   !.images = images]
  /\ HandleItemSetSelect(packageName, tagName, images)
  /\ UNCHANGED <<catalog, itemSets, alertOpen, edits>>

NextMat ==
  \E packageName \in MatPackageNames, tagName \in MatTagNames,
     images \in SeqsUpTo(MatFilenames, MaxSel) :
       SelectCall(packageName, tagName, images)

SpecMat == InitMat /\ [][NextMat]_vars

-----------------------------------------------------------------------------
(* Properties *)

IdSet(ids) == {ids[k] : k \in 1..Len(ids)}

BatchItems(b, j) == SelectSeq(b, LAMBDA it : it.batch = j)

Fns(cs) == {cs[k].fn : k \in 1..Len(cs)}

IsCreateUndo(e, ts) ==
  e.kind = "undo" /\ ts[e.toast].undo = "onUndoItemsCreate"

\* The text of s before its first '.', stated by position
BeforeDot(s) ==
  LET dots == {k \in 1..Len(s) : s[k] = "."} IN
  IF dots = {} THEN s
  ELSE SubSeq(s, 1, (CHOOSE k \in dots : \A d \in dots : k <= d) - 1)

\* The position of the first image entry named f, 0 if there is none
FirstEntry(imgs, f) ==
  LET hits == {k \in 1..Len(imgs) : imgs[k].filename = f} IN
  IF hits = {} THEN 0 ELSE CHOOSE k \in hits : \A h \in hits : k <= h

\* C1 as stated: invoking the undo of a Create passes the ids the batch had
\* when it was created, and removes from the board exactly the items of that
\* batch: no item of another batch is removed.
C1_UndoRemovesOwnBatchOnly ==
  [][IsCreateUndo(event', toasts) =>
       LET i == event'.toast IN
       /\ calls' = <<[Call("onUndoItemsCreate") EXCEPT !.ids = created[i]]>>
       /\ board' = SelectSeq(board, LAMBDA it : it.batch # i)]_vars

\* C1 amended: invoking the undo of a Create, after any other mutations and
\* edits, passes exactly the ids the batch had when it was created; the board
\* loses exactly the items carrying one of those ids, so every item of the
\* batch is removed and an item of another batch is removed only when its id
\* collides with one of them.
C1_UndoRemovesByIdSet ==
  [][IsCreateUndo(event', toasts) =>
       LET i == event'.toast
           ids == IdSet(created[i]) IN
       /\ calls' = <<[Call("onUndoItemsCreate") EXCEPT !.ids = created[i]]>>
       /\ board' = SelectSeq(board, LAMBDA it : it.id \notin ids)
       /\ BatchItems(board', i) = <<>>
       /\ \A k \in 1..Len(board) :
            (board[k].batch # i /\ board[k].id \notin ids) => Includes(board', board[k])]_vars

\* A first undo of a non-empty Create, invoked after a later mutation and an
\* edit, that left other items on the board.
C1_Witness ==
  /\ IsCreateUndo(event, toasts)
  /\ ~event.again
  /\ event.toast = 1
  /\ created[1] # <<>>
  /\ Len(toasts) >= 2
  /\ edits > 0
  /\ board # <<>>

AllResets(ts) == \A j \in 1..Len(ts) : ts[j].undo = "undoReset"

NoneInvoked(ts) == \A j \in 1..Len(ts) : ~ts[j].invoked

C3_DeleteGated ==
  [][/\ "deleteAllItems" \in Fns(calls') => (alertOpen /\ event'.kind = "confirmDelete")
     /\ event'.kind \in {"removeAll", "cancelDelete"} =>
          /\ calls' = <<>>
          /\ toasts' = toasts
          /\ board' = board
          /\ deleteSnap' = deleteSnap
          /\ resetSnap' = resetSnap]_vars

\* The prompt was declined with items on the board.
C3_Witness ==
  /\ event.kind = "cancelDelete"
  /\ board # <<>>
  /\ ~alertOpen

\* C4 as stated: a select whose package is not in the catalog does not raise,
\* and creates one item per selected filename with content the filename
\* before its first '.' and no tags.
C4_TotalOverPackages ==
  (event.kind = "select" /\ PackageIndex(catalog, event.packageName) = 0) =>
     /\ ~threw
     /\ Len(calls) = 2
     /\ calls[1].fn = "onItemsCreate"
     /\ Len(calls[1].items) = Len(event.images)
     /\ \A k \in 1..Len(event.images) :
          /\ calls[1].items[k].content = BeforeDot(event.images[k])
          /\ calls[1].items[k].tags = <<>>

\* C5 as stated: invoking a notification's undo again, after it was already
\* invoked, calls no undo entry point and leaves the board as it was.
C5_SingleShot ==
  [][(event'.kind = "undo" /\ event'.again) => (calls' = <<>> /\ board' = board)]_vars

\* C6 as stated: after derivation every package has exactly one ItemSet
\* whose tagName is "all", and its images are the package's filenames in order.
C6_OneAllSetPerPackage ==
  event.kind = "render" =>
    \A p \in 1..Len(catalog) :
      LET alls == {k \in 1..Len(itemSets) :
                     itemSets[k].packageName = catalog[p].name /\ itemSets[k].tagName = S_all} IN
      /\ Cardinality(alls) = 1
      /\ \A k \in alls :
           itemSets[k].images = [i \in 1..Len(catalog[p].images) |-> catalog[p].images[i].filename]

\* C7 as stated: for every tag key T of a package P, an ItemSet for (P, T) is
\* derived iff some image of P carries T, and its images are then exactly the
\* filenames of the images carrying T, in order.
C7_TagSetIffTagged ==
  event.kind = "render" =>
    \A p \in 1..Len(catalog) : \A t \in 1..Len(catalog[p].tags) :
      LET T == catalog[p].tags[t].key
          imgs == catalog[p].images
          sets == {k \in 1..Len(itemSets) :
                     itemSets[k].packageName = catalog[p].name /\ itemSets[k].tagName = T}
          carrying == SelectSeq(imgs, LAMBDA im : \E j \in 1..Len(im.tags) : im.tags[j] = T) IN
      /\ (sets # {}) <=> (carrying # <<>>)
      /\ \A k \in sets :
           itemSets[k].images = [i \in 1..Len(carrying) |-> carrying[i].filename]

\* C8: a select against a package of the catalog never raises and creates one
\* item per selected filename, in order; its content is the label of the first
\* image entry with that filename when there is one and the label is not
\* empty, otherwise the filename before its first '.'; its tags are that
\* entry's tags, or none.
C8_MaterializeFallback ==
  (event.kind = "select" /\ PackageIndex(catalog, event.packageName) # 0) =>
     LET imgs == catalog[PackageIndex(catalog, event.packageName)].images IN
     /\ ~threw
     /\ Len(calls) = 2
     /\ calls[1].fn = "onItemsCreate"
     /\ Len(calls[1].items) = Len(event.images)
     /\ \A k \in 1..Len(event.images) :
          LET e == FirstEntry(imgs, event.images[k])
              it == calls[1].items[k] IN
          /\ it.content = IF e # 0 /\ Len(imgs[e].label) > 0 THEN imgs[e].label
                          ELSE BeforeDot(event.images[k])
          /\ it.tags = IF e # 0 THEN imgs[e].tags ELSE <<>>

\* A selection of a filename the package lacks and of one whose entry has an
\* empty label has been materialized.
C8_Witness ==
  /\ event.kind = "select"
  /\ catalog = CatalogA
  /\ event.packageName = <<"p">>
  /\ event.images = <<F_g, F_b>>
  /\ Len(calls) = 2

\* C9: a select of n filenames against a package of the catalog creates n
\* items whose ids are "<pkg>-<tag>-item-<k>" for k = 0..n-1, k being the
\* position in the selection, and the ids of the batch are pairwise distinct.
C9_IdsBySelectionPosition ==
  (event.kind = "select" /\ PackageIndex(catalog, event.packageName) # 0) =>
     /\ Len(calls) = 2
     /\ Len(calls[1].items) = Len(event.images)
     /\ \A k \in 1..Len(event.images) :
          calls[1].items[k].id =
            event.packageName \o <<"-">> \o event.tagName
              \o <<"-", "i", "t", "e", "m", "-">> \o NumToStr(k - 1)
     /\ \A k, l \in 1..Len(calls[1].items) :
          k # l => calls[1].items[k].id # calls[1].items[l].id

\* A selection that repeats a filename, one that sits second in its package,
\* has been materialized.
C9_Witness ==
  /\ event.kind = "select"
  /\ catalog = CatalogA
  /\ event.packageName = <<"p">>
  /\ event.images = <<F_b, F_b>>
  /\ Len(calls) = 2
  /\ Len(calls[1].items) = 2

\* C10: a Create (also of no items), a Reset and a confirmed Delete All each
\* call their Board State Owner mutation once and then emit one notification
\* whose undo is the undo entry point of the same kind; invoking an undo
\* emits no notification.
C10_DoNotifyWire ==
  [][LET k == event'.kind
         Done(fn, undo) ==
           /\ Len(calls') = 2
           /\ calls'[1].fn = fn
           /\ calls'[2].fn = "toast"
           /\ calls'[2].undo = undo
           /\ Len(toasts') = Len(toasts) + 1
           /\ SubSeq(toasts', 1, Len(toasts)) = toasts
           /\ toasts'[Len(toasts')].undo = undo
           /\ ~toasts'[Len(toasts')].invoked
     IN
     /\ (k \in {"select", "upload"} /\ ~threw') =>
          /\ Done("onItemsCreate", "onUndoItemsCreate")
          /\ calls'[2].count = Len(calls'[1].items)
          /\ toasts'[Len(toasts')].items = calls'[1].items
     /\ k = "reset" => Done("resetItems", "undoReset")
     /\ k = "confirmDelete" => Done("deleteAllItems", "undoDelete")
     /\ k = "undo" => (Len(toasts') = Len(toasts) /\ "toast" \notin Fns(calls'))]_vars

\* A Create of no items has fired its zero-count notification.
C10_Witness ==
  /\ event.kind = "upload"
  /\ Len(calls) = 2
  /\ calls[1].items = <<>>
  /\ calls[2].count = 0
  /\ toasts[Len(toasts)].undo = "onUndoItemsCreate"

====
